---------------------------- MODULE Spec2Model ----------------------------
(***************************************************************************)
(* A model of monitor.py: the dividend-index "annual line" monitor.        *)
(*                                                                         *)
(* Python values are records tagged by the field py: None is               *)
(* [py |-> "None"], a dict is [py |-> "dict", key |-> value, ...].         *)
(* Python floats are modelled as exact rationals [n |-> num, d |-> den]    *)
(* kept in lowest terms with d > 0, so the arithmetic of                   *)
(* check_stock_condition and of the rolling mean is computed, not assumed. *)
(* Column names and index names that are Chinese in the source are written *)
(* in pinyin, because the module is ASCII.                                 *)
(***************************************************************************)
EXTENDS Integers, Sequences, FiniteSets, TLC

VARIABLES
    pc,            \* position of the modelled call / of main()
    stock_data,    \* check_stock_condition: the argument object
    threshold,     \* check_stock_condition / process_stocks_batch: threshold
    result,        \* the value returned by the modelled call
    input,         \* history: the argument as it was when the call was made
    cache,         \* DataCache: the files of cache_dir, by file name
    now,           \* datetime.now(), in seconds
    ticks,         \* how many times the clock has advanced (bounded)
    call,          \* the last step: a DataCache / get_stock_data_with_cache call, or a tick
    stored,        \* history: per code, the last completed set (time, data)
    stocks_list,   \* process_stocks_batch / main: the constituents <<code, name>>
    index_name,    \* process_stocks_batch: the index the list belongs to
    max_workers,   \* process_stocks_batch: the size of the worker pool
    futures,       \* process_stocks_batch: the submitted fetches, in order
    idx,           \* process_stocks_batch: the loop position i (here 1-based)
    hits,          \* process_stocks_batch: the hits found so far
    obtained,      \* history: per future, what future.result gave the loop
    index_code,    \* get_all_index_stocks: the index asked for
    all_stocks,    \* get_all_index_stocks: the constituents collected
    called,        \* history: the constituent sources called, in order
    answers,       \* history: what each called source answered
    SERVER_CHAN_KEY,      \* main: whether the relay key is configured
    index_pos,            \* main: the position in index_config (1-based)
    all_hits,             \* main: the hits of the indices processed so far
    total_stocks_checked, \* main: the constituents processed so far
    events                \* history: the results-file write and the send_wechat calls

checkVars == <<stock_data, threshold, result, input>>

cacheVars == <<cache, now, ticks, call, stored>>

batchVars == <<stocks_list, index_name, max_workers, futures, idx, hits, obtained>>

indexVars == <<index_code, all_stocks, called, answers>>

mainVars == <<SERVER_CHAN_KEY, index_pos, all_hits, total_stocks_checked, events>>

vars == <<pc, checkVars, cacheVars, batchVars, indexVars, mainVars>>

(***************************************************************************)
(* Bounds of the model.                                                    *)
(***************************************************************************)
MaxPrice == 52

MaxTicks == 2

MaxExtra == 1

MaxStocks == 3

MaxWorkers == 2

MaxRows == 2

(***************************************************************************)
(* Python values.                                                          *)
(***************************************************************************)
None == [py |-> "None"]

EmptyDict == [py |-> "dict"]

\* Python truthiness of None and of a dict: `if not stock_data`, `if cached_data`.
Truthy(v) == v.py = "dict" /\ DOMAIN v # {"py"}

(***************************************************************************)
(* Exact rationals (the floats of the source).                             *)
(***************************************************************************)
Abs(i) == IF i < 0 THEN -i ELSE i

RECURSIVE GCD(_, _)
GCD(a, b) == IF b = 0 THEN a ELSE GCD(b, a % b)

\* The rational n/d (d # 0) in lowest terms with a positive denominator.
R(n, d) ==
    LET g == GCD(Abs(n), Abs(d))
        s == IF d < 0 THEN -1 ELSE 1
    IN  [n |-> (s * n) \div g, d |-> (s * d) \div g]

Zero == R(0, 1)

RLess(a, b) == a.n * b.d < b.n * a.d

RLeq(a, b) == a.n * b.d <= b.n * a.d

RSub(a, b) == R(a.n * b.d - b.n * a.d, a.d * b.d)

RDiv(a, b) == R(a.n * b.d, a.d * b.n)

RMul(a, b) == R(a.n * b.n, a.d * b.d)

(***************************************************************************)
(* check_stock_condition(stock_data, threshold)          monitor.py 226-247 *)
(***************************************************************************)
\* A faulty variant: the lower end of the band is not strict.
InBand_LowerNotStrict(deviation, thr) ==
    RLeq(Zero, deviation) /\ RLeq(deviation, thr)

\* `0 < deviation <= threshold`
InBand(deviation, thr) ==
    RLess(Zero, deviation) /\ RLeq(deviation, thr)

check_stock_condition(data, thr) ==
    IF ~Truthy(data) THEN None
    ELSE LET close_price == data.close
             ma250_price == data.ma250
         IN  IF RLeq(ma250_price, Zero) THEN None
             ELSE LET deviation ==
                          RDiv(RSub(ma250_price, close_price), ma250_price)
                  IN  IF InBand(deviation, thr)
                      THEN \* result = stock_data.copy(), then two keys are set
                           [deviation |-> deviation,
                            deviation_percent |-> RMul(deviation, R(100, 1))]
                               @@ data
                      ELSE None

(***************************************************************************)
(* SpecCheck: check_stock_condition applied to every input of a bounded    *)
(* set: None, the empty dict, and the records get_stock_data_with_cache    *)
(* builds (code, close, ma250, data_points).                               *)
(***************************************************************************)
Prices == {R(n, d) : n \in -2 .. MaxPrice, d \in {1, 2}}

Thresholds == {R(-6, 100), R(0, 1), R(6, 100), R(1, 2)}

StockRecord(code, close, ma250, n) ==
    [py |-> "dict", code |-> code, close |-> close, ma250 |-> ma250,
     data_points |-> n]

CheckInputs ==
    {None, EmptyDict}
        \cup {StockRecord("600016", R(c, 1), m, 250) :
                  c \in 0 .. MaxPrice, m \in Prices}

\* The variables of the other specifications stay at rest.
IdleCache ==
    /\ cache = <<>>
    /\ now = 0
    /\ ticks = 0
    /\ call = None
    /\ stored = <<>>

IdleBatch ==
    /\ stocks_list = <<>>
    /\ index_name = ""
    /\ max_workers = 0
    /\ futures = <<>>
    /\ idx = 0
    /\ hits = <<>>
    /\ obtained = <<>>

IdleIndex ==
    /\ index_code = ""
    /\ all_stocks = <<>>
    /\ called = <<>>
    /\ answers = <<>>

IdleMain ==
    /\ SERVER_CHAN_KEY = ""
    /\ index_pos = 0
    /\ all_hits = <<>>
    /\ total_stocks_checked = 0
    /\ events = <<>>

InitCheck ==
    /\ IdleCache
    /\ IdleBatch
    /\ IdleIndex
    /\ IdleMain
    /\ pc = "call"
    /\ stock_data \in CheckInputs
    /\ threshold \in Thresholds
    /\ input = stock_data
    /\ result = None

\* The call.  The keys deviation and deviation_percent are set on a copy
\* (line 242), so the argument object is left as it was.
CheckStockCondition ==
    /\ pc = "call"
    /\ result' = check_stock_condition(stock_data, threshold)
    /\ stock_data' = stock_data
    /\ pc' = "returned"
    /\ UNCHANGED <<threshold, input, cacheVars, batchVars, indexVars, mainVars>>

NextCheck == CheckStockCondition

SpecCheck == InitCheck /\ [][NextCheck]_vars

(***************************************************************************)
(* C1.  check_stock_condition returns a hit record if and only if          *)
(* stock_data is non-empty, ma250 > 0 and the close is strictly below      *)
(* ma250 by at most the threshold fraction; otherwise it returns None.  A  *)
(* hit carries deviation = (ma250 - close) / ma250 and deviation_percent = *)
(* 100 * deviation, keeps the keys of the input, and the input record is   *)
(* not modified.  The band is stated here without division: with ma250 >   *)
(* 0, 0 < (ma250 - close)/ma250 <= t  iff  close < ma250 and               *)
(* (ma250 - close) <= t * ma250.                                           *)
(***************************************************************************)
C1_ShouldHit ==
    /\ input # None
    /\ input # EmptyDict
    /\ input.ma250.n > 0
    /\ RLess(input.close, input.ma250)
    /\ RLeq(RSub(input.ma250, input.close), RMul(threshold, input.ma250))

C1_CheckStockCondition ==
    pc = "returned" =>
        /\ stock_data = input
        /\ (result # None) <=> C1_ShouldHit
        /\ result # None =>
              /\ \A k \in DOMAIN input : result[k] = input[k]
              /\ DOMAIN result = DOMAIN input \cup {"deviation", "deviation_percent"}
              /\ result.deviation.n * input.ma250.n * input.close.d * input.ma250.d
                     = (input.ma250.n * input.close.d - input.close.n * input.ma250.d)
                           * input.ma250.d * result.deviation.d
              /\ result.deviation_percent.n * result.deviation.d
                     = 100 * result.deviation.n * result.deviation_percent.d

\* A hit at the upper edge of the band: the deviation equals the threshold.
C1_Witness ==
    /\ pc = "returned"
    /\ result # None
    /\ threshold = R(6, 100)
    /\ result.deviation = threshold
    /\ result.deviation_percent = R(6, 1)

(***************************************************************************)
(* DataCache                                              monitor.py 27-61  *)
(*                                                                         *)
(* A cache file is missing, unreadable (json.load or the cache_time lookup *)
(* raises: a truncated or foreign file), or holds what set dumped.  The    *)
(* JSON document keeps cache_time as an ISO string and data as an object   *)
(* of strings, ints and floats; json.load gives back equal values, and     *)
(* fromisoformat gives back the datetime isoformat was given.              *)
(***************************************************************************)
TTL == 3600

Codes == {"600016", "000858"}

Missing == [kind |-> "missing"]

Corrupt == [kind |-> "corrupt"]

isoformat(t) == [iso |-> t]

fromisoformat(s) == s.iso

\* cache_data of set, as written by json.dump.
CacheFile(t, data) == [kind |-> "json", cache_time |-> isoformat(t), data |-> data]

\* f"{stock_code}.json" (the file name, without the extension)
get_cache_key(stock_code) == stock_code

FileNames == {get_cache_key(c) : c \in Codes}

\* A faulty variant: an entry of exactly 3600 seconds is still served.
Fresh_Inclusive(t, cache_time) == t - cache_time <= TTL

\* (datetime.now() - cache_time).total_seconds() < 3600
Fresh(t, cache_time) == t - cache_time < TTL

\* DataCache.get at time t.
DataCache_get(files, stock_code, t) ==
    LET cache_file == files[get_cache_key(stock_code)]
    IN  IF cache_file.kind = "missing" THEN None      \* os.path.exists
        ELSE IF cache_file.kind = "corrupt" THEN None \* except: pass
        ELSE IF Fresh(t, fromisoformat(cache_file.cache_time))
             THEN cache_file.data
             ELSE None

\* What the write of set can do: succeed, fail in open (the file is left
\* as it was), or fail in json.dump after open truncated the file.
WriteOutcomes == {"ok", "open_fails", "dump_fails"}

\* DataCache.set at time t: the files afterwards.  A failure is swallowed.
DataCache_set(files, stock_code, data, t, io) ==
    LET key == get_cache_key(stock_code)
    IN  CASE io = "ok" -> [files EXCEPT ![key] = CacheFile(t, data)]
          [] io = "open_fails" -> files
          [] io = "dump_fails" -> [files EXCEPT ![key] = Corrupt]

(***************************************************************************)
(* The clock.  It advances by one second or by one second less than the    *)
(* lifetime of an entry, so that ages of 3599, 3600 and 3601 seconds       *)
(* occur; the number of advances is bounded.                               *)
(***************************************************************************)
TickSteps == {1, TTL - 1}

Tick ==
    /\ ticks < MaxTicks
    /\ \E d \in TickSteps : now' = now + d
    /\ ticks' = ticks + 1
    /\ call' = [py |-> "tick"]
    /\ UNCHANGED <<pc, cache, stored, checkVars, batchVars, indexVars, mainVars>>

(***************************************************************************)
(* SpecCache: DataCache.get and DataCache.set called directly, in any      *)
(* order, for two codes, as the clock advances.  A cache directory may     *)
(* hold unreadable files from the start.                                   *)
(***************************************************************************)
CacheData(c) ==
    {StockRecord(c, R(47, 1), R(50, 1), 250), StockRecord(c, R(50, 1), R(50, 1), 251)}

IdleCheck ==
    /\ stock_data = None
    /\ threshold = Zero
    /\ result = None
    /\ input = None

InitCache ==
    /\ IdleCheck
    /\ IdleBatch
    /\ IdleIndex
    /\ IdleMain
    /\ pc = "cache"
    /\ cache \in [FileNames -> {Missing, Corrupt}]
    /\ now = 0
    /\ ticks = 0
    /\ call = None
    /\ stored = [c \in Codes |-> None]

Get ==
    \E stock_code \in Codes :
        /\ call' = [py |-> "get", code |-> stock_code,
                    ret |-> DataCache_get(cache, stock_code, now)]
        /\ UNCHANGED <<pc, cache, now, ticks, stored, checkVars, batchVars, indexVars, mainVars>>

Set ==
    \E stock_code \in Codes, io \in WriteOutcomes :
      \E data \in CacheData(stock_code) :
        /\ cache' = DataCache_set(cache, stock_code, data, now, io)
        /\ call' = [py |-> "set", code |-> stock_code, data |-> data, io |-> io]
        /\ stored' = IF io = "ok"
                     THEN [stored EXCEPT ![stock_code] = [t |-> now, data |-> data]]
                     ELSE stored
        /\ UNCHANGED <<pc, now, ticks, checkVars, batchVars, indexVars, mainVars>>

NextCache == Tick \/ Get \/ Set

SpecCache == InitCache /\ [][NextCache]_vars

(***************************************************************************)
(* C5.  DataCache.get(code) returns the data last stored by                *)
(* DataCache.set(code, data) if and only if a readable entry for the code  *)
(* exists and its cache_time is less than 3600 seconds before the get; for *)
(* a missing, unreadable or expired entry it returns None.  Entries are    *)
(* keyed by code: a set for one code never changes what get returns for    *)
(* another code.                                                           *)
(***************************************************************************)
C5_Readable(c) == cache[c].kind = "json"

C5_GetReturnsLastStored ==
    call.py = "get" =>
        LET c == call.code
            served == C5_Readable(c) /\ stored[c] # None /\ now - stored[c].t < TTL
        IN  /\ served => call.ret = stored[c].data
            /\ ~served => call.ret = None

C5_KeyedByCode ==
    \A c \in Codes :
        (call'.py = "set" /\ call'.code # c) =>
            DataCache_get(cache', c, now') = DataCache_get(cache, c, now)

C5_DataCache == [](C5_GetReturnsLastStored) /\ [][C5_KeyedByCode]_vars

\* A get that serves an entry one second before it expires, after a set
\* for the other code.
C5_Witness ==
    /\ call.py = "get"
    /\ call.ret # None
    /\ now - stored[call.code].t = TTL - 1
    /\ \E c \in Codes : c # call.code /\ stored[c] # None /\ stored[c].t >= stored[call.code].t

\* An expired entry, exactly 3600 seconds old, is not served.
C5_WitnessExpired ==
    /\ call.py = "get"
    /\ call.ret = None
    /\ C5_Readable(call.code)
    /\ now - stored[call.code].t = TTL

(***************************************************************************)
(* get_stock_data_with_cache(stock_code, stock_name, cache)                *)
(*                                                     monitor.py 163-221  *)
(*                                                                         *)
(* The remote answer df is either an exception or a frame of daily rows.   *)
(* A frame of len rows is described by three prices: the rows before the   *)
(* last 250 close at a, the last row closes at c, the rows between close   *)
(* at b; CloseAt gives the column row by row.  The symbol suffix (.SH, .SZ) of *)
(* lines 173-178 only names the request and is left out.                   *)
(***************************************************************************)
Window == 250

\* The prices <<a, b, c>> of the frames that are long enough.
Shapes == {<<47, 50, 48>>}

ShortLens == {1, Window - 1}

LongLens == Window .. Window + MaxExtra

Frame(n, a, b, c) == [kind |-> "frame", len |-> n, a |-> a, b |-> b, c |-> c]

Frames ==
    {Frame(0, 0, 0, 0)}
        \cup {Frame(n, 50, 50, 50) : n \in ShortLens}
        \cup {Frame(n, s[1], s[2], s[3]) : n \in LongLens, s \in Shapes}

Responses == {[kind |-> "raise"]} \cup Frames

\* df['shoupan'].iloc[i - 1]: the closing price of row i of a frame.
CloseAt(df, i) ==
    IF i = df.len THEN df.c
    ELSE IF i <= df.len - Window THEN df.a
    ELSE df.b

\* The sum of the closing prices of rows lo .. hi.
RECURSIVE SumCloses(_, _, _)
SumCloses(df, lo, hi) ==
    IF lo > hi THEN 0
    ELSE IF lo = hi THEN CloseAt(df, lo)
    ELSE LET mid == (lo + hi) \div 2
         IN  SumCloses(df, lo, mid) + SumCloses(df, mid + 1, hi)

\* A faulty variant: the mean of the whole column.
rolling_mean_last_Expanding(df, window) ==
    R(SumCloses(df, 1, df.len), df.len)

\* The last value of the column's rolling(window=window, min_periods=1)
\* .mean(), for a frame that is not empty: the mean of the last
\* min(window, len) closing prices.
rolling_mean_last(df, window) ==
    LET n == df.len
        lo == IF n > window THEN n - window + 1 ELSE 1
    IN  R(SumCloses(df, lo, n), n - lo + 1)

\* latest['MA250'] of every frame with a row: df['MA250'] of line 201 at the
\* last row.
MA250 == [df \in {f \in Frames : f.len > 0} |-> rolling_mean_last(df, Window)]

\* A faulty variant: the cache is not consulted.
CacheHit_Never(cached_data) == FALSE

\* `if cached_data:`
CacheHit(cached_data) == Truthy(cached_data)

\* The call at time t with remote answer df and write outcome io: the value
\* returned, the files afterwards, and what the call did.
get_stock_data_with_cache(stock_code, files, t, df, io) ==
    LET cached_data == DataCache_get(files, stock_code, t)
        miss(ret, files2, wrote) ==
            [ret |-> ret, cache |-> files2, cached_data |-> cached_data,
             requested |-> TRUE, df |-> df, wrote |-> wrote]
    IN  IF CacheHit(cached_data)
        THEN [ret |-> cached_data, cache |-> files, cached_data |-> cached_data,
              requested |-> FALSE, df |-> None, wrote |-> FALSE]
        ELSE IF df.kind = "raise" THEN miss(None, files, FALSE)   \* except
        ELSE IF df.len = 0 THEN miss(None, files, FALSE)          \* df.empty
        ELSE IF df.len < Window THEN miss(None, files, FALSE)     \* len(df) < 250
        ELSE LET res == StockRecord(stock_code,
                                    R(CloseAt(df, df.len), 1),     \* latest
                                    MA250[df],
                                    df.len)
             IN  miss(res, DataCache_set(files, stock_code, res, t, io), TRUE)

(***************************************************************************)
(* SpecFetch: get_stock_data_with_cache called one call after another for  *)
(* two codes, against every remote answer, as the clock advances.          *)
(***************************************************************************)
InitFetch ==
    /\ IdleCheck
    /\ IdleBatch
    /\ IdleIndex
    /\ IdleMain
    /\ pc = "fetch"
    /\ cache \in [FileNames -> {Missing, Corrupt}]
    /\ now = 0
    /\ ticks = 0
    /\ call = None
    /\ stored = [c \in Codes |-> None]

GetStockData ==
    \E stock_code \in Codes, df \in Responses, io \in WriteOutcomes :
        LET r == get_stock_data_with_cache(stock_code, cache, now, df, io)
        IN  /\ cache' = r.cache
            /\ call' = [py |-> "fetch", code |-> stock_code,
                        cached_data |-> r.cached_data, requested |-> r.requested,
                        df |-> r.df, wrote |-> r.wrote, ret |-> r.ret]
            /\ stored' = IF r.wrote /\ io = "ok"
                         THEN [stored EXCEPT ![stock_code] = [t |-> now, data |-> r.ret]]
                         ELSE stored
            /\ UNCHANGED <<pc, now, ticks, checkVars, batchVars, indexVars, mainVars>>

NextFetch == Tick \/ GetStockData

SpecFetch == InitFetch /\ [][NextFetch]_vars

(***************************************************************************)
(* C3.  On a cache miss get_stock_data_with_cache returns a record only    *)
(* when the fetched history has at least 250 rows; the record's ma250 is   *)
(* then the mean of exactly the last 250 closes (249 rows at b and the     *)
(* last at c) and its close is the last close.  When the history is empty  *)
(* or shorter than 250 rows, or the fetch raises, it returns None.         *)
(***************************************************************************)
C3_FetchRecord ==
    (call.py = "fetch" /\ call.requested) =>
        /\ call.ret # None =>
              /\ call.df.kind = "frame"
              /\ call.df.len >= Window
              /\ call.ret.ma250 = R((Window - 1) * call.df.b + call.df.c, Window)
              /\ call.ret.close = R(call.df.c, 1)
              /\ call.ret.code = call.code
        /\ (call.df.kind = "raise" \/ call.df.len < Window) => call.ret = None

\* A miss answered by 251 rows whose oldest row, window and last row differ.
C3_Witness ==
    /\ call.py = "fetch"
    /\ call.requested
    /\ call.ret # None
    /\ call.df.len = Window + 1
    /\ call.df.a # call.df.b
    /\ call.df.b # call.df.c

(***************************************************************************)
(* C8.  get_stock_data_with_cache issues a remote request only when        *)
(* cache.get returns nothing: on a cache hit it returns the cached record  *)
(* with no remote request and no cache write.  The cache is written only   *)
(* after a fetch of at least 250 rows, so a failed or insufficient fetch   *)
(* leaves the cache unchanged.  After a call that fetched and whose cache  *)
(* write succeeded, every later call for the same code less than 3600      *)
(* seconds after that write returns the same record without a remote       *)
(* request and leaves the cache as it is.                                  *)
(***************************************************************************)
C8_HitOrFetch ==
    call.py = "fetch" =>
        /\ Truthy(call.cached_data) =>
              ~call.requested /\ ~call.wrote /\ call.ret = call.cached_data
        /\ call.requested => ~Truthy(call.cached_data)
        /\ call.wrote =>
              /\ call.requested
              /\ call.df.kind = "frame"
              /\ call.df.len >= Window
              /\ call.ret # None

C8_Frame ==
    /\ cache' # cache => (call'.py = "fetch" /\ call'.wrote)
    /\ call'.py = "fetch" =>
          LET c == call'.code
          IN  /\ Truthy(DataCache_get(cache, c, now)) =>
                    /\ ~call'.requested
                    /\ cache' = cache
                    /\ call'.ret = DataCache_get(cache, c, now)
              /\ (stored[c] # None /\ now - stored[c].t < TTL) =>
                    /\ ~call'.requested
                    /\ cache' = cache
                    /\ call'.ret = stored[c].data

AllStocks ==
    <<(<<"600016", "minsheng">>), (<<"000858", "wuliangye">>),
      (<<"601318", "pingan">>), (<<"600036", "zhaoshang">>),
      (<<"000333", "meidi">>)>>

IndexNames == {"zhongzheng_hongli", "shangzheng_hongli"}

\* What a fetch of one code can return.
FetchResults(code) ==
    {None, StockRecord(code, R(47, 1), R(50, 1), 250),
     StockRecord(code, R(50, 1), R(50, 1), 250)}

TimedOut == [py |-> "TimeoutError"]

Running(fs) == {k \in 1 .. Len(fs) : fs[k].state = "running"}

\* A faulty variant: a thread for every fetch.
WorkerFree_Unbounded(fs, workers) == TRUE

\* ThreadPoolExecutor(max_workers=max_workers): a fetch starts only on one of
\* at most max_workers threads.
WorkerFree(fs, workers) == Cardinality(Running(fs)) < workers

InitBatch ==
    /\ IdleCache
    /\ IdleIndex
    /\ IdleMain
    /\ stock_data = None
    /\ result = None
    /\ input = None
    /\ threshold = R(6, 100)              \* threshold=0.06
    /\ pc = "submit"
    /\ \E n \in 0 .. MaxStocks : stocks_list = SubSeq(AllStocks, 1, n)
    /\ index_name \in IndexNames
    /\ max_workers \in 1 .. MaxWorkers
    /\ futures = <<>>
    /\ idx = 1
    /\ hits = <<>>
    /\ obtained = <<>>

\* for stock_code, stock_name in stocks_list: executor.submit(...)
Submit ==
    /\ pc = "submit"
    /\ idx <= Len(stocks_list)
    /\ futures' = Append(futures, [state |-> "queued", code |-> stocks_list[idx][1],
                                   name |-> stocks_list[idx][2], data |-> None])
    /\ idx' = idx + 1
    /\ UNCHANGED <<pc, stocks_list, index_name, max_workers, hits, obtained,
                   checkVars, cacheVars, indexVars, mainVars>>

\* The submit loop is over; the result loop starts.
SubmitDone ==
    /\ pc = "submit"
    /\ idx > Len(stocks_list)
    /\ pc' = "collect"
    /\ idx' = 1
    /\ UNCHANGED <<stocks_list, index_name, max_workers, futures, hits, obtained,
                   checkVars, cacheVars, indexVars, mainVars>>

\* A pool thread takes the oldest queued fetch.
WorkerStart ==
    \E k \in 1 .. Len(futures) :
        /\ futures[k].state = "queued"
        /\ \A j \in 1 .. k - 1 : futures[j].state # "queued"
        /\ WorkerFree(futures, max_workers)
        /\ futures' = [futures EXCEPT ![k].state = "running"]
        /\ UNCHANGED <<pc, stocks_list, index_name, max_workers, idx, hits, obtained,
                       checkVars, cacheVars, indexVars, mainVars>>

\* A running fetch returns.
WorkerFinish ==
    \E k \in 1 .. Len(futures) :
        /\ futures[k].state = "running"
        /\ \E data \in FetchResults(futures[k].code) :
               futures' = [futures EXCEPT ![k].state = "done", ![k].data = data]
        /\ UNCHANGED <<pc, stocks_list, index_name, max_workers, idx, hits, obtained,
                       checkVars, cacheVars, indexVars, mainVars>>

\* hits after one pass of the result loop with stock_data in hand.
Evaluate(hs, data, name, thr) ==
    IF Truthy(data)
    THEN LET res == check_stock_condition(data, thr)
         IN  IF Truthy(res) THEN Append(hs, [index |-> name] @@ res) ELSE hs
    ELSE hs

\* future.result(timeout=10) returns the fetch's value.
Collect ==
    /\ pc = "collect"
    /\ idx <= Len(futures)
    /\ futures[idx].state = "done"
    /\ hits' = Evaluate(hits, futures[idx].data, index_name, threshold)
    /\ obtained' = Append(obtained, futures[idx].data)
    /\ idx' = idx + 1
    /\ UNCHANGED <<pc, stocks_list, index_name, max_workers, futures,
                   checkVars, cacheVars, indexVars, mainVars>>

\* A faulty variant: a timeout ends the result loop.
Timeout_Abort ==
    /\ pc = "collect"
    /\ idx <= Len(futures)
    /\ futures[idx].state # "done"
    /\ obtained' = Append(obtained, TimedOut)
    /\ idx' = Len(futures) + 1
    /\ UNCHANGED <<pc, stocks_list, index_name, max_workers, futures, hits,
                   checkVars, cacheVars, indexVars, mainVars>>

\* future.result(timeout=10) raises TimeoutError: the fetch has not finished
\* within 10 seconds; the security is skipped.
Timeout ==
    /\ pc = "collect"
    /\ idx <= Len(futures)
    /\ futures[idx].state # "done"
    /\ obtained' = Append(obtained, TimedOut)
    /\ idx' = idx + 1
    /\ UNCHANGED <<pc, stocks_list, index_name, max_workers, futures, hits,
                   checkVars, cacheVars, indexVars, mainVars>>

\* Leaving the `with` block is executor.shutdown(wait=True).
PoolIdle(fs) == \A k \in 1 .. Len(fs) : fs[k].state = "done"

\* The result loop is over, the pool has shut down, hits is returned.
Return ==
    /\ pc = "collect"
    /\ idx > Len(futures)
    /\ PoolIdle(futures)
    /\ pc' = "returned"
    /\ UNCHANGED <<stocks_list, index_name, max_workers, futures, idx, hits,
                   obtained, checkVars, cacheVars, indexVars, mainVars>>

NextBatch ==
    Submit \/ SubmitDone \/ WorkerStart \/ WorkerFinish \/ Collect \/ Timeout
        \/ Return

SpecBatch == InitBatch /\ [][NextBatch]_vars

(***************************************************************************)
(* C4.  process_stocks_batch runs the fetches on a bounded pool: at every  *)
(* moment at most max_workers fetches are running; every security of       *)
(* stocks_list is submitted exactly once (the futures are the list, in     *)
(* order, and complete when the result loop starts); and the function      *)
(* returns only after every submitted fetch has finished, also the ones    *)
(* whose result wait timed out.                                            *)
(***************************************************************************)
C4_BoundedPool ==
    /\ Cardinality(Running(futures)) <= max_workers
    /\ Len(futures) <= Len(stocks_list)
    /\ \A k \in 1 .. Len(futures) :
           futures[k].code = stocks_list[k][1] /\ futures[k].name = stocks_list[k][2]
    /\ pc \in {"collect", "returned"} => Len(futures) = Len(stocks_list)
    /\ pc = "returned" => \A k \in 1 .. Len(futures) : futures[k].state = "done"

\* A return after a timed-out wait, of a list longer than the pool.
C4_Witness ==
    /\ pc = "returned"
    /\ Len(stocks_list) > max_workers
    /\ \E k \in 1 .. Len(obtained) : obtained[k] = TimedOut

\* The pool is full while a fetch is still queued.
C4_WitnessFull ==
    /\ Cardinality(Running(futures)) = max_workers
    /\ \E k \in 1 .. Len(futures) : futures[k].state = "queued"

(***************************************************************************)
(* C6.  A failure for one security (its fetch returns None, or the wait    *)
(* for its result times out) only skips that security: every security of   *)
(* stocks_list is waited for, and the returned hits are exactly the        *)
(* securities whose obtained data satisfy check_stock_condition with the   *)
(* threshold, in the order of stocks_list, each tagged with index_name.    *)
(***************************************************************************)
\* The positions of stocks_list whose obtained data are a hit.
C6_HitPositions ==
    {k \in 1 .. Len(obtained) :
        /\ obtained[k] # TimedOut
        /\ obtained[k] # None
        /\ check_stock_condition(obtained[k], threshold) # None}

IndexCodes == {"000922", "000015", "399324"}

Raise == [kind |-> "raise"]

ConsFrame(cols, n) ==
    [kind |-> "frame", cols |-> cols,
     rows |-> [r \in 1 .. n |-> SubSeq(AllStocks[r], 1, Len(cols))]]

\* The frames with the given columns: no row, or 1 .. MaxRows rows.
ConsFrames(cols) == {ConsFrame(cols, n) : n \in 0 .. MaxRows}

Answers1 ==
    {Raise} \cup ConsFrames(<<"pinzhong_daima", "pinzhong_mingcheng">>)
        \cup ConsFrames(<<"pinzhong_daima">>)
        \cup ConsFrames(<<"symbol", "name">>)
        \cup ConsFrames(<<"symbol">>)

Answers2 ==
    {Raise} \cup ConsFrames(<<"code", "name">>) \cup ConsFrames(<<"code">>)
        \cup ConsFrames(<<"symbol", "name">>)

Answers3 ==
    {Raise} \cup ConsFrames(<<"chengfenquan_daima", "chengfenquan_mingcheng">>)
        \cup ConsFrames(<<"chengfenquan_daima">>)
        \cup ConsFrames(<<"zhengquan_daima", "name">>)

\* df.empty
Empty(df) == Len(df.rows) = 0 \/ Len(df.cols) = 0

HasCol(df, col) == \E k \in 1 .. Len(df.cols) : df.cols[k] = col

\* row[col]
Cell(df, r, col) == df.rows[r][CHOOSE k \in 1 .. Len(df.cols) : df.cols[k] = col]

\* row.get(col, '')
CellOr(df, r, col) == IF HasCol(df, col) THEN Cell(df, r, col) ELSE ""

\* The (code, name) pairs of every row, by column name.
ByName(df, code_col, name_col) ==
    [r \in 1 .. Len(df.rows) |-> <<Cell(df, r, code_col), CellOr(df, r, name_col)>>]

\* The (code, name) pairs of every row, by position: row.iloc[0], row.iloc[1].
ByPosition(df) ==
    [r \in 1 .. Len(df.rows) |->
        <<df.rows[r][1], IF Len(df.rows[r]) > 1 THEN df.rows[r][2] ELSE "">>]

\* Method 1 (lines 108-127): what a non-empty frame appends to all_stocks.
Extract1(df) ==
    IF HasCol(df, "pinzhong_daima")
    THEN ByName(df, "pinzhong_daima", "pinzhong_mingcheng")
    ELSE ByPosition(df)

\* Method 2 (lines 129-141): nothing is appended without a 'code' column.
Extract2(df) ==
    IF HasCol(df, "code") THEN ByName(df, "code", "name") ELSE <<>>

\* A faulty variant: method 3 is tried for every index.
Method3Applies_Always(code) == TRUE

\* `if index_code == "000922":`
Method3Applies(code) == code = "000922"

InitIndex ==
    /\ IdleCheck
    /\ IdleCache
    /\ IdleBatch
    /\ IdleMain
    /\ pc = "method1"
    /\ index_code \in IndexCodes
    /\ all_stocks = <<>>
    /\ called = <<>>
    /\ answers = <<>>

\* Lines 108-127.
Method1 ==
    /\ pc = "method1"
    /\ \E df \in Answers1 :
           /\ called' = Append(called, 1)
           /\ answers' = Append(answers, df)
           /\ IF df.kind = "frame" /\ ~Empty(df)
              THEN /\ all_stocks' = all_stocks \o Extract1(df)
                   /\ result' = all_stocks'
                   /\ pc' = "returned"
              ELSE /\ pc' = "method2"
                   /\ UNCHANGED <<all_stocks, result>>
    /\ UNCHANGED <<index_code, stock_data, threshold, input, cacheVars, batchVars,
                   mainVars>>

\* Lines 129-141.
Method2 ==
    /\ pc = "method2"
    /\ \E df \in Answers2 :
           /\ called' = Append(called, 2)
           /\ answers' = Append(answers, df)
           /\ IF df.kind = "frame" /\ ~Empty(df)
              THEN /\ all_stocks' = all_stocks \o Extract2(df)
                   /\ result' = all_stocks'
                   /\ pc' = "returned"
              ELSE /\ pc' = "method3"
                   /\ UNCHANGED <<all_stocks, result>>
    /\ UNCHANGED <<index_code, stock_data, threshold, input, cacheVars, batchVars,
                   mainVars>>

\* Lines 143-158, for the index method 3 serves.  A frame without the
\* code column raises KeyError at its first row, which is caught; then, as
\* after an exception or an empty frame, [] is returned.
Method3 ==
    /\ pc = "method3"
    /\ Method3Applies(index_code)
    /\ \E df \in Answers3 :
           /\ called' = Append(called, 3)
           /\ answers' = Append(answers, df)
           /\ IF df.kind = "frame" /\ ~Empty(df) /\ HasCol(df, "chengfenquan_daima")
              THEN /\ all_stocks' = all_stocks
                           \o ByName(df, "chengfenquan_daima", "chengfenquan_mingcheng")
                   /\ result' = all_stocks'
              ELSE /\ result' = <<>>
                   /\ UNCHANGED all_stocks
    /\ pc' = "returned"
    /\ UNCHANGED <<index_code, stock_data, threshold, input, cacheVars, batchVars,
                   mainVars>>

\* Lines 143-158, for any other index: no source is left, [] is returned.
NoMethod3 ==
    /\ pc = "method3"
    /\ ~Method3Applies(index_code)
    /\ result' = <<>>
    /\ pc' = "returned"
    /\ UNCHANGED <<index_code, all_stocks, called, answers, stock_data, threshold,
                   input, cacheVars, batchVars, mainVars>>

NextIndex == Method1 \/ Method2 \/ Method3 \/ NoMethod3

SpecIndex == InitIndex /\ [][NextIndex]_vars

(***************************************************************************)
(* C7.  get_all_index_stocks tries its sources in the fixed order 1, 2, 3: *)
(* method 2 is called only if method 1 raised or answered an empty frame;  *)
(* method 3 only if neither earlier method returned and index_code is      *)
(* "000922"; the function returns at the first method that answers a       *)
(* non-empty frame, calling no later method; and it returns the empty list *)
(* when no method succeeds.                                                *)
(***************************************************************************)
C7_NoFrame(k) == answers[k].kind = "raise" \/ Empty(answers[k])

C7_SourceOrder ==
    /\ \A k \in 1 .. Len(called) : called[k] = k
    /\ Len(called) <= 3
    /\ Len(called) >= 2 => C7_NoFrame(1)
    /\ Len(called) >= 3 => (C7_NoFrame(1) /\ C7_NoFrame(2) /\ index_code = "000922")
    /\ \A k \in 1 .. Len(called) : ~C7_NoFrame(k) => (k = Len(called) /\ pc = "returned")
    /\ pc = "returned" =>
          /\ Len(called) >= 1
          /\ (\A k \in 1 .. Len(called) : C7_NoFrame(k)) => result = <<>>
          /\ C7_NoFrame(Len(called)) =>
                 Len(called) = IF index_code = "000922" THEN 3 ELSE 2

\* Method 3 delivers the constituents after methods 1 and 2 failed.
C7_Witness ==
    /\ pc = "returned"
    /\ called = <<1, 2, 3>>
    /\ answers[1].kind = "raise"
    /\ answers[2].kind = "frame"
    /\ Len(result) = MaxRows
    /\ result[1] = AllStocks[1]

(***************************************************************************)
(* C10.  get_all_index_stocks returns an empty list only when every source *)
(* it may try for the index (methods 1 and 2, and method 3 for "000922")   *)
(* raised or answered an empty frame: whenever it returns at a method      *)
(* whose frame was not empty, the returned list is not empty.  (The        *)
(* KeyError of method 3 on a frame without its code column counts as       *)
(* method 3 raising.)                                                      *)
(***************************************************************************)
C10_Failed(k) ==
    \/ C7_NoFrame(k)
    \/ k = 3 /\ ~HasCol(answers[3], "chengfenquan_daima")

C10_Allowed == IF index_code = "000922" THEN 1 .. 3 ELSE 1 .. 2

C10_EmptyOnlyIfAllFailed ==
    pc = "returned" =>
        /\ result = <<>> =>
               \A k \in C10_Allowed : k <= Len(called) /\ C10_Failed(k)
        /\ ~C7_NoFrame(Len(called)) => result # <<>>

(***************************************************************************)
(* main()                                              monitor.py 376-491  *)
(*                                                                         *)
(* main walks index_config in order.  For each index it calls              *)
(* get_all_index_stocks and, unless the list is empty, process_stocks_batch;*)
(* both are taken here as whole calls, computed from what the constituent  *)
(* sources answer and from what the result loop obtains for each security. *)
(* Then it writes the results file and sends the notifications.            *)
(***************************************************************************)
index_config ==
    <<(<<"zhongzheng_hongli", "000922">>), (<<"shangzheng_hongli", "000015">>),
      (<<"shenzheng_hongli", "399324">>)>>

\* get_all_index_stocks as one call: a1, a2, a3 are what methods 1, 2, 3
\* answer if they are called.
get_all_index_stocks(code, a1, a2, a3) ==
    IF a1.kind = "frame" /\ ~Empty(a1) THEN Extract1(a1)
    ELSE IF a2.kind = "frame" /\ ~Empty(a2) THEN Extract2(a2)
    ELSE IF /\ Method3Applies(code)
            /\ a3.kind = "frame"
            /\ ~Empty(a3)
            /\ HasCol(a3, "chengfenquan_daima")
         THEN ByName(a3, "chengfenquan_daima", "chengfenquan_mingcheng")
         ELSE <<>>

\* Every list get_all_index_stocks can return for an index.
IndexStocks ==
    [code \in IndexCodes |->
        {get_all_index_stocks(code, a1, a2, a3) :
             a1 \in Answers1, a2 \in Answers2, a3 \in Answers3}]

\* process_stocks_batch as one call: obt[k] is what future.result gives the
\* result loop for the k-th security (a record, None, or a timeout).
RECURSIVE BatchHits(_, _, _, _)
BatchHits(obt, name, thr, k) ==
    IF k = 0 THEN <<>>
    ELSE Evaluate(BatchHits(obt, name, thr, k - 1),
                  IF obt[k] = TimedOut THEN None ELSE obt[k], name, thr)

process_stocks_batch(stocks, name, thr, obt) == BatchHits(obt, name, thr, Len(stocks))

\* What the result loop can obtain for each security of a list.
Obtainable(stocks) ==
    {obt \in [1 .. Len(stocks) -> UNION {FetchResults(AllStocks[k][1]) : k \in 1 .. MaxRows}
                                      \cup {TimedOut}] :
        \A k \in 1 .. Len(stocks) : obt[k] = TimedOut \/ obt[k] \in FetchResults(stocks[k][1])}

\* A faulty variant: a single hit produces no report.
generate_notification_content_NeedsTwo(hs, total_checked) ==
    IF Len(hs) <= 1 THEN <<None, None>>
    ELSE <<[py |-> "str", report |-> "detail", hits |-> Len(hs)],
           [py |-> "str", report |-> "detail", checked |-> total_checked]>>

\* generate_notification_content(hits, total_checked): (None, None) without
\* hits, else the title and the Markdown report (of which the model keeps
\* the counts).
generate_notification_content(hs, total_checked) ==
    IF hs = <<>> THEN <<None, None>>
    ELSE <<[py |-> "str", report |-> "detail", hits |-> Len(hs)],
           [py |-> "str", report |-> "detail", checked |-> total_checked]>>

\* What the relay can do with a post: requests.post raises, or answers with
\* a status and a body (JSON with a code, or not JSON).
RelayResponses ==
    {[kind |-> "exception"], [kind |-> "http", status |-> 500, body |-> "json", code |-> 0],
     [kind |-> "http", status |-> 200, body |-> "json", code |-> 0],
     [kind |-> "http", status |-> 200, body |-> "json", code |-> 40001],
     [kind |-> "http", status |-> 200, body |-> "text", code |-> 0]}

\* send_wechat (lines 66-97): whether a post was made, and the value returned.
send_wechat(key, response) ==
    IF key = "" THEN [posted |-> FALSE, ret |-> FALSE]
    ELSE [posted |-> TRUE,
          ret |-> /\ response.kind = "http"
                  /\ response.status = 200
                  /\ response.body = "json"
                  /\ response.code = 0]

\* The record of one send_wechat call.
Sent(report, key, response) ==
    [fn |-> "send_wechat", report |-> report] @@ send_wechat(key, response)

\* A faulty variant: the loop over the indices ends after the first index.
AllIndicesDone_AfterFirst(pos) == pos > 1

\* `for index_name, index_code in index_config.items()` is exhausted.
AllIndicesDone(pos) == pos > Len(index_config)

InitMain ==
    /\ IdleCache
    /\ IdleIndex
    /\ pc = "loop"
    /\ stock_data = None
    /\ result = None
    /\ input = None
    /\ threshold = R(6, 100)              \* threshold=0.06
    /\ max_workers = 5                    \* max_workers=5
    /\ SERVER_CHAN_KEY \in {"", "SCT"}
    /\ index_pos = 1
    /\ index_name = ""
    /\ stocks_list = <<>>
    /\ futures = <<>>
    /\ idx = 0
    /\ hits = <<>>
    /\ obtained = <<>>
    /\ all_hits = <<>>
    /\ total_stocks_checked = 0
    /\ events = <<>>

\* One pass of the loop over index_config (lines 394-419).
ProcessIndex ==
    /\ pc = "loop"
    /\ ~AllIndicesDone(index_pos)
    /\ index_name' = index_config[index_pos][1]
    /\ stocks_list' \in IndexStocks[index_config[index_pos][2]]
    /\ IF stocks_list' = <<>>
       THEN UNCHANGED <<hits, all_hits, total_stocks_checked>>     \* continue
       ELSE /\ \E obt \in Obtainable(stocks_list') :
                   hits' = process_stocks_batch(stocks_list', index_name',
                                                threshold, obt)
            /\ all_hits' = all_hits \o hits'
            /\ total_stocks_checked' = total_stocks_checked + Len(stocks_list')
    /\ index_pos' = index_pos + 1
    /\ UNCHANGED <<pc, SERVER_CHAN_KEY, events, max_workers, futures, idx, obtained,
                   checkVars, cacheVars, indexVars>>

\* The results file is written (lines 421-432).
SaveResults ==
    /\ pc = "loop"
    /\ AllIndicesDone(index_pos)
    /\ events' = Append(events, [fn |-> "write", total_hits |-> Len(all_hits),
                                 total_stocks_checked |-> total_stocks_checked])
    /\ pc' = "notify"
    /\ UNCHANGED <<SERVER_CHAN_KEY, index_pos, all_hits, total_stocks_checked,
                   batchVars, checkVars, cacheVars, indexVars>>

\* `if all_hits:` ... send_wechat(title, content) (lines 442-445).
SendDetail ==
    /\ pc = "notify"
    /\ all_hits # <<>>
    /\ LET tc == generate_notification_content(all_hits, total_stocks_checked)
       IN  IF tc[1] # None /\ tc[2] # None
           THEN /\ \E response \in RelayResponses :
                       events' = Append(events, Sent("detail", SERVER_CHAN_KEY, response))
                /\ pc' = "summary"
           ELSE /\ pc' = "done"
                /\ UNCHANGED events
    /\ UNCHANGED <<SERVER_CHAN_KEY, index_pos, all_hits, total_stocks_checked,
                   batchVars, checkVars, cacheVars, indexVars>>

\* send_wechat(summary title, summary_content) (lines 447-468).
SendSummary ==
    /\ pc = "summary"
    /\ \E response \in RelayResponses :
           events' = Append(events, Sent("summary", SERVER_CHAN_KEY, response))
    /\ pc' = "done"
    /\ UNCHANGED <<SERVER_CHAN_KEY, index_pos, all_hits, total_stocks_checked,
                   batchVars, checkVars, cacheVars, indexVars>>

\* `else:` send_wechat(no-match report) (lines 469-489).
SendNoMatch ==
    /\ pc = "notify"
    /\ all_hits = <<>>
    /\ \E response \in RelayResponses :
           events' = Append(events, Sent("no_match", SERVER_CHAN_KEY, response))
    /\ pc' = "done"
    /\ UNCHANGED <<SERVER_CHAN_KEY, index_pos, all_hits, total_stocks_checked,
                   batchVars, checkVars, cacheVars, indexVars>>

NextMain == ProcessIndex \/ SaveResults \/ SendDetail \/ SendSummary \/ SendNoMatch

SpecMain == InitMain /\ [][NextMain]_vars

(***************************************************************************)
(* C2.  In every run of main in which at least one security matches,       *)
(* send_wechat is called with the detailed report and then with the        *)
(* summary report, in that order, and no send_wechat call happens before   *)
(* every index has been processed and the results file has been written.   *)
(***************************************************************************)
C2_NotifyAfterAllIndices ==
    /\ \A k \in 1 .. Len(events) :
           events[k].fn = "send_wechat" =>
               /\ k > 1
               /\ events[1].fn = "write"
               /\ events[1].total_hits = Len(all_hits)
               /\ index_pos = Len(index_config) + 1
    /\ (pc = "done" /\ all_hits # <<>>) =>
           /\ Len(events) = 3
           /\ events[2].fn = "send_wechat" /\ events[2].report = "detail"
           /\ events[3].fn = "send_wechat" /\ events[3].report = "summary"

\* A finished run with hits from more than one index, both reports posted.
C2_Witness ==
    /\ pc = "done"
    /\ \E h, g \in 1 .. Len(all_hits) : all_hits[h].index # all_hits[g].index
    /\ Len(events) = 3
    /\ events[2].posted
    /\ events[3].posted

(***************************************************************************)
(* C9.  Every run of main that processes all indices attempts at least one *)
(* and at most two notifications, decided only by whether any security     *)
(* matched: one no-match report when all_hits is empty, the detail and     *)
(* then the summary when it is not.  A failed send_wechat (it returns      *)
(* False) does not stop the remaining send or the completion of main:      *)
(* until main is done, a next step is always possible.                     *)
(***************************************************************************)
C9_Reports ==
    LET sends == SelectSeq(events, LAMBDA e : e.fn = "send_wechat")
    IN  [k \in 1 .. Len(sends) |-> sends[k].report]

C9_OneOrTwoNotifications ==
    /\ pc = "done" =>
          /\ index_pos = Len(index_config) + 1
          /\ C9_Reports = IF all_hits = <<>> THEN <<"no_match">>
                          ELSE <<"detail", "summary">>
    /\ pc # "done" => ENABLED NextMain

\* A finished run whose detail send failed at the relay and whose summary
\* send succeeded.
C9_Witness ==
    /\ pc = "done"
    /\ Len(events) = 3
    /\ events[2].posted /\ ~events[2].ret
    /\ events[3].ret

\* A finished run without a match: one report, which failed.
C9_WitnessNoMatch ==
    /\ pc = "done"
    /\ total_stocks_checked > 0
    /\ all_hits = <<>>
    /\ Len(events) = 2
    /\ ~events[2].ret

=============================================================================
